---- MODULE Spec2Model ----
(***************************************************************************)
(* Task manager backend: the JWT middleware (middleware/auth.js), the task *)
(* routes (routes/tasks.js) and the collaborators they call (User and Task *)
(* models, generateToken, the auth routes), and the Dashboard page of the   *)
(* frontend with the API client it fetches the tasks through.              *)
(*                                                                         *)
(* Strings the code inspects character by character (the Authorization     *)
(* header, titles) are sequences of one-character records [ch |-> c]; a    *)
(* JWT inside a header is one element [jwt |-> token].  An optional field  *)
(* of a request (a header, a body field) is present exactly when its name  *)
(* is in the DOMAIN of the record that carries it.                         *)
(***************************************************************************)
EXTENDS Integers, Sequences, FiniteSets, TLC

VARIABLES
  clock,    \* the server's time, in days
  users,    \* the users collection: _id -> document
  userSeq,  \* how many user ids have been assigned
  issued,   \* the tokens generateToken has returned to clients
  tasks,    \* the tasks collection: _id -> document
  taskSeq,  \* how many task ids have been assigned
  req,      \* the requests in flight: where each is, and its req.user
  last,     \* the latest exchange: the request and the response it got
  alone,    \* per account, the tasks collection of the run in which only
            \* the requests resolved to that account are served
  dash      \* the state of the Dashboard page of one browser

vars == <<clock, users, userSeq, issued, tasks, taskSeq, req, last, alone, dash>>

(***************************************************************************)
(* Bounds of the model.                                                    *)
(***************************************************************************)
MaxUsers == 3
MaxTasks == 2
MaxTokens == 4
MaxClock == 45
NumReqs == 2
MaxFetches == 3

(***************************************************************************)
(* Program constants.  The clock counts days.                              *)
(***************************************************************************)
ExpiresInDays == 30
BearerPrefixLen == 7

\* one step of the environment's clock: half the lifetime of a token
ClockStep == ExpiresInDays \div 2

UserIds == 1..MaxUsers
TaskIds == 1..MaxTasks
Reqs == 1..NumReqs
Str(s) == [i \in DOMAIN s |-> [ch |-> s[i]]]

EmptyRec == [f \in {} |-> 0]

JWT_SECRET == "server-secret"
OtherSecret == "attacker-secret"

(***************************************************************************)
(* jsonwebtoken.  A signature is the pair it was computed from, so it      *)
(* verifies exactly for the payload and the secret that produced it.       *)
(***************************************************************************)
JwtSign(payload, secret) ==
  [payload |-> payload, sig |-> [over |-> payload, key |-> secret]]

\* utils/generateToken.js: jwt.sign({ userId }, JWT_SECRET, { expiresIn: '30d' })
generateToken(userId, now) ==
  JwtSign([userId |-> userId, iat |-> now, exp |-> now + ExpiresInDays], JWT_SECRET)

IsJwt(tokenStr) == Len(tokenStr) = 1 /\ "jwt" \in DOMAIN tokenStr[1]

\* jwt.verify(token, secret) at time now: the decoded payload, or a throw
JwtVerifyLax(tokenStr, secret, now) ==
  IF ~IsJwt(tokenStr)
  THEN [throws |-> "JsonWebTokenError"]
  ELSE LET t == tokenStr[1].jwt IN
       IF t.sig # [over |-> t.payload, key |-> secret]
       THEN [throws |-> "JsonWebTokenError"]
       ELSE IF now > t.payload.exp
       THEN [throws |-> "TokenExpiredError"]
       ELSE [throws |-> "", decoded |-> t.payload]

JwtVerifyNoExp(tokenStr, secret, now) ==
  IF ~IsJwt(tokenStr)
  THEN [throws |-> "JsonWebTokenError"]
  ELSE LET t == tokenStr[1].jwt IN
       IF t.sig # [over |-> t.payload, key |-> secret]
       THEN [throws |-> "JsonWebTokenError"]
       ELSE [throws |-> "", decoded |-> t.payload]

JwtVerify(tokenStr, secret, now) ==
  IF ~IsJwt(tokenStr)
  THEN [throws |-> "JsonWebTokenError"]
  ELSE LET t == tokenStr[1].jwt IN
       IF t.sig # [over |-> t.payload, key |-> secret]
       THEN [throws |-> "JsonWebTokenError"]
       ELSE IF now >= t.payload.exp
       THEN [throws |-> "TokenExpiredError"]
       ELSE [throws |-> "", decoded |-> t.payload]

(***************************************************************************)
(* middleware/auth.js: protect                                             *)
(***************************************************************************)
BearerPrefix == Str(<<"B", "e", "a", "r", "e", "r", " ">>)

StartsWith(s, prefix) ==
  Len(s) >= Len(prefix) /\ SubSeq(s, 1, Len(prefix)) = prefix

\* String.prototype.substring(n)
Substring(s, n) == SubSeq(s, n + 1, Len(s))

NoTokenMsg == "Not authorized, no token provided"
InvalidTokenMsg == "Not authorized, invalid token"
UserNotFoundMsg == "User not found"

SelectAll(user) == user

\* User.findById(id).select('-password')
SelectMinusPassword(user) == [f \in (DOMAIN user) \ {"password"} |-> user[f]]

protectNoPrefixCheck(headers, userStore, now) ==
  IF \/ "authorization" \notin DOMAIN headers
     \/ headers.authorization = <<>>
  THEN [next |-> FALSE, status |-> 401, message |-> NoTokenMsg,
        verified |-> FALSE, lookedUp |-> FALSE]
  ELSE LET token == Substring(headers.authorization, BearerPrefixLen) IN
       IF token = <<>>
       THEN [next |-> FALSE, status |-> 401, message |-> NoTokenMsg,
             verified |-> FALSE, lookedUp |-> FALSE]
       ELSE LET v == JwtVerify(token, JWT_SECRET, now) IN
            IF v.throws # ""
            THEN [next |-> FALSE, status |-> 401, message |-> InvalidTokenMsg,
                  verified |-> TRUE, lookedUp |-> FALSE]
            ELSE IF v.decoded.userId \notin DOMAIN userStore
            THEN [next |-> FALSE, status |-> 401, message |-> UserNotFoundMsg,
                  verified |-> TRUE, lookedUp |-> TRUE]
            ELSE [next |-> TRUE, status |-> 0, message |-> "",
                  verified |-> TRUE, lookedUp |-> TRUE,
                  user |-> SelectMinusPassword(userStore[v.decoded.userId])]

protectDecodeOnly(headers, userStore, now) ==
  IF \/ "authorization" \notin DOMAIN headers
     \/ headers.authorization = <<>>
     \/ ~StartsWith(headers.authorization, BearerPrefix)
  THEN [next |-> FALSE, status |-> 401, message |-> NoTokenMsg,
        verified |-> FALSE, lookedUp |-> FALSE]
  ELSE LET token == Substring(headers.authorization, BearerPrefixLen) IN
       IF token = <<>>
       THEN [next |-> FALSE, status |-> 401, message |-> NoTokenMsg,
             verified |-> FALSE, lookedUp |-> FALSE]
       ELSE IF ~IsJwt(token)
            THEN [next |-> FALSE, status |-> 401, message |-> InvalidTokenMsg,
                  verified |-> TRUE, lookedUp |-> FALSE]
            ELSE IF token[1].jwt.payload.userId \notin DOMAIN userStore
            THEN [next |-> FALSE, status |-> 401, message |-> UserNotFoundMsg,
                  verified |-> TRUE, lookedUp |-> TRUE]
            ELSE [next |-> TRUE, status |-> 0, message |-> "",
                  verified |-> TRUE, lookedUp |-> TRUE,
                  user |-> SelectMinusPassword(userStore[token[1].jwt.payload.userId])]

\* the outcome of protect for a request's headers: a 401 response, or
\* next() with req.user set
protect(headers, userStore, now) ==
  IF \/ "authorization" \notin DOMAIN headers
     \/ headers.authorization = <<>>
     \/ ~StartsWith(headers.authorization, BearerPrefix)
  THEN [next |-> FALSE, status |-> 401, message |-> NoTokenMsg,
        verified |-> FALSE, lookedUp |-> FALSE]
  ELSE LET token == Substring(headers.authorization, BearerPrefixLen) IN
       IF token = <<>>
       THEN [next |-> FALSE, status |-> 401, message |-> NoTokenMsg,
             verified |-> FALSE, lookedUp |-> FALSE]
       ELSE LET v == JwtVerify(token, JWT_SECRET, now) IN
            IF v.throws # ""
            THEN [next |-> FALSE, status |-> 401, message |-> InvalidTokenMsg,
                  verified |-> TRUE, lookedUp |-> FALSE]
            ELSE IF v.decoded.userId \notin DOMAIN userStore
            THEN [next |-> FALSE, status |-> 401, message |-> UserNotFoundMsg,
                  verified |-> TRUE, lookedUp |-> TRUE]
            ELSE [next |-> TRUE, status |-> 0, message |-> "",
                  verified |-> TRUE, lookedUp |-> TRUE,
                  user |-> SelectMinusPassword(userStore[v.decoded.userId])]


(***************************************************************************)
(* models/User.js and routes/auth.js                                       *)
(***************************************************************************)
\* bcrypt.hash(password, salt): one-way, so a digest is never the plaintext
HashPassword(password) == [bcrypt |-> password]

PublicUser(user) == [id |-> user._id, name |-> user.name, email |-> user.email]

\* the schema's lowercase: true setter, on the addresses clients send
ToLowerCase(email) ==
  CASE email = "A@x.io" -> "a@x.io"
    [] OTHER -> email

FindUserByEmailExact(userStore, email) ==
  {u \in DOMAIN userStore : userStore[u].email = email}

\* User.findOne({ email }): the setter applies to the filter as well
FindUserByEmail(userStore, email) ==
  {u \in DOMAIN userStore : userStore[u].email = ToLowerCase(email)}

\* the unique index on email
UniqueEmail(userStore, user) ==
  \A u \in DOMAIN userStore : userStore[u].email # user.email

InvalidCredentialsMsg == "Invalid email or password"
DuplicateEmailMsg == "User already exists with this email"

matchPasswordAny(entered, digest) == TRUE

\* userSchema.methods.matchPassword: bcrypt.compare(entered, this.password)
matchPassword(entered, digest) == digest = HashPassword(entered)

\* the Express error handler of server.js, reached through next(error)
ErrorHandler(name) == [status |-> 500, message |-> name]

\* POST /auth/register
register(userStore, body, newId, now) ==
  IF ~({"name", "email", "password"} \subseteq DOMAIN body)
  THEN [store |-> userStore, status |-> 400,
        message |-> "Please provide name, email, and password"]
  ELSE IF FindUserByEmail(userStore, body.email) # {}
  THEN [store |-> userStore, status |-> 400,
        message |-> DuplicateEmailMsg]
  ELSE LET user == [_id |-> newId, name |-> body.name,
                    email |-> ToLowerCase(body.email),
                    password |-> HashPassword(body.password)]
       IN
       IF ~UniqueEmail(userStore, user)
       THEN [store |-> userStore] @@ ErrorHandler("MongoServerError")
       ELSE
          [store |-> [u \in (DOMAIN userStore) \cup {newId} |->
                        IF u = newId THEN user ELSE userStore[u]],
           status |-> 201, message |-> "User registered successfully",
           token |-> generateToken(newId, now), user |-> PublicUser(user)]

\* POST /auth/login
login(userStore, body, now) ==
  IF ~({"email", "password"} \subseteq DOMAIN body)
  THEN [status |-> 400, message |-> "Please provide email and password"]
  ELSE LET found == FindUserByEmail(userStore, body.email) IN
       IF found = {}
       THEN [status |-> 401, message |-> InvalidCredentialsMsg]
       ELSE LET user == userStore[CHOOSE u \in found : TRUE] IN
            IF ~matchPassword(body.password, user.password)
            THEN [status |-> 401, message |-> InvalidCredentialsMsg]
            ELSE [status |-> 200, message |-> "Login successful",
                  token |-> generateToken(user._id, now),
                  user |-> PublicUser(user)]

(***************************************************************************)
(* models/Task.js                                                          *)
(***************************************************************************)
Statuses == {"pending", "in-progress", "completed"}

Space == [ch |-> " "]

RECURSIVE TrimLeft(_)
TrimLeft(s) == IF s # <<>> /\ Head(s) = Space THEN TrimLeft(Tail(s)) ELSE s

RECURSIVE TrimRight(_)
TrimRight(s) ==
  IF s # <<>> /\ s[Len(s)] = Space THEN TrimRight(SubSeq(s, 1, Len(s) - 1)) ELSE s

\* the schema's trim: true setter
Trim(s) == TrimRight(TrimLeft(s))

TaskValidTitleOnly(doc) == doc.title # <<>>

TaskValidStatusOnly(doc) == doc.status \in Statuses

\* the schema's validators: title required, status in the enum
TaskValid(doc) == doc.title # <<>> /\ doc.status \in Statuses

\* a well-formed ObjectId; any other id makes the query throw a CastError
IsObjectId(id) == id >= 1

Put(store, doc) ==
  [t \in (DOMAIN store) \cup {doc._id} |-> IF t = doc._id THEN doc ELSE store[t]]

RemoveAll(store, id) == [t \in {} |-> store[t]]

Remove(store, id) == [t \in (DOMAIN store) \ {id} |-> store[t]]

\* Task.findOne({ _id: id, user: userId }): the ids of the matching documents
FindOneAnyOwner(store, id, userId) == {t \in DOMAIN store : t = id}

FindOne(store, id, userId) ==
  {t \in DOMAIN store : t = id /\ store[t].user = userId}


(***************************************************************************)
(* routes/tasks.js.  Each handler is an operator on the task store: it     *)
(* yields the store it leaves and the response it sends.                   *)
(***************************************************************************)
NotFoundMsg == "Task not found"
InvalidStatusMsg == "Invalid status. Must be: pending, in-progress, or completed"

LowerCh(c) ==
  CASE c = [ch |-> "A"] -> [ch |-> "a"]
    [] c = [ch |-> "B"] -> [ch |-> "b"]
    [] OTHER -> c

AnyCh == [ch |-> "."]

\* { $regex: pattern, $options: 'i' } for patterns of literals and '.'
RegexTestI(pattern, s) ==
  \E off \in 0..(Len(s) - Len(pattern)) :
    \A i \in 1..Len(pattern) :
      pattern[i] = AnyCh \/ LowerCh(pattern[i]) = LowerCh(s[off + i])

\* the query GET / builds, as the ids of the documents it matches
ListQuery(store, userId, query) ==
  {t \in DOMAIN store :
     /\ store[t].user = userId
     /\ ("search" \in DOMAIN query /\ query.search # <<>>
           => RegexTestI(query.search, store[t].title))
     /\ ("status" \in DOMAIN query /\ query.status \in Statuses
           => store[t].status = query.status)}

SortedByUpdate(store, ids) ==
  {s \in [1..Cardinality(ids) -> ids] :
     /\ \A i, j \in DOMAIN s : i # j => s[i] # s[j]
     /\ \A i, j \in DOMAIN s : i < j => store[s[i]].updatedAt >= store[s[j]].updatedAt}

\* the orders .sort({ createdAt: -1 }) may return the documents ids in
SortedDesc(store, ids) ==
  {s \in [1..Cardinality(ids) -> ids] :
     /\ \A i, j \in DOMAIN s : i # j => s[i] # s[j]
     /\ \A i, j \in DOMAIN s : i < j => store[s[i]].createdAt >= store[s[j]].createdAt}

\* GET /
listTasks(store, user, query) ==
  LET ids == ListQuery(store, user._id, query) IN
  [store |-> store, status |-> 200, count |-> Cardinality(ids),
   tasks |-> {[i \in DOMAIN s |-> store[s[i]]] : s \in SortedDesc(store, ids)}]

getTaskById(store, user, id) ==
  IF ~IsObjectId(id)
  THEN [store |-> store] @@ ErrorHandler("CastError")
  ELSE IF id \notin DOMAIN store
       THEN [store |-> store, status |-> 404, message |-> NotFoundMsg]
       ELSE [store |-> store, status |-> 200, message |-> "", task |-> store[id]]

getTaskTouching(store, user, id) ==
  IF ~IsObjectId(id)
  THEN [store |-> store] @@ ErrorHandler("CastError")
  ELSE LET found == FindOne(store, id, user._id) IN
       IF found = {}
       THEN [store |-> store, status |-> 404, message |-> NotFoundMsg]
       ELSE [store |-> [store EXCEPT ![id].status = "completed"],
             status |-> 200, message |-> "", task |-> store[id]]

\* GET /:id
getTask(store, user, id) ==
  IF ~IsObjectId(id)
  THEN [store |-> store] @@ ErrorHandler("CastError")
  ELSE LET found == FindOne(store, id, user._id) IN
       IF found = {}
       THEN [store |-> store, status |-> 404, message |-> NotFoundMsg]
       ELSE [store |-> store, status |-> 200, message |-> "",
             task |-> store[CHOOSE t \in found : TRUE]]

\* !value for an optional string field
Falsy(body, f) == f \notin DOMAIN body \/ body[f] = <<>>

\* the same for status, whose values are kept as whole strings
FalsyStatus(body) == "status" \notin DOMAIN body \/ body.status = ""

\* the document POST / hands to Task.create
NewTaskSpoofable(body, user, newId, now) ==
  [_id |-> newId,
   title |-> Trim(body.title),
   description |-> IF Falsy(body, "description") THEN <<>> ELSE body.description,
   status |-> IF FalsyStatus(body) THEN "pending" ELSE body.status,
   user |-> IF "user" \in DOMAIN body THEN body.user ELSE user._id,
   createdAt |-> now,
   updatedAt |-> now]

NewTaskOtherDefault(body, user, newId, now) ==
  [_id |-> newId,
   title |-> Trim(body.title),
   description |-> IF Falsy(body, "description") THEN <<>> ELSE body.description,
   status |-> IF FalsyStatus(body) THEN "completed" ELSE body.status,
   user |-> user._id,
   createdAt |-> now,
   updatedAt |-> now]

NewTask(body, user, newId, now) ==
  [_id |-> newId,
   title |-> Trim(body.title),
   description |-> IF Falsy(body, "description") THEN <<>> ELSE body.description,
   status |-> IF FalsyStatus(body) THEN "pending" ELSE body.status,
   user |-> user._id,
   createdAt |-> now,
   updatedAt |-> now]

\* POST /
createTask(store, user, body, newId, now) ==
  IF Falsy(body, "title")
  THEN [store |-> store, status |-> 400, message |-> "Title is required"]
  ELSE LET doc == NewTask(body, user, newId, now) IN
       IF ~TaskValid(doc)
       THEN [store |-> store] @@ ErrorHandler("ValidationError")
       ELSE [store |-> Put(store, doc), status |-> 201,
             message |-> "Task created successfully", task |-> doc]

AssignedNoStatus(doc, body) ==
  [f \in DOMAIN doc |->
     IF f = "title" /\ "title" \in DOMAIN body THEN Trim(body.title)
     ELSE IF f = "description" /\ "description" \in DOMAIN body THEN body.description
     ELSE doc[f]]

\* the fields PUT /:id assigns to the loaded document
Assigned(doc, body) ==
  [f \in DOMAIN doc |->
     IF f = "title" /\ "title" \in DOMAIN body THEN Trim(body.title)
     ELSE IF f = "description" /\ "description" \in DOMAIN body THEN body.description
     ELSE IF f = "status" /\ "status" \in DOMAIN body THEN body.status
     ELSE doc[f]]

updateLoadPartial(store, user, id, body) ==
  IF ~IsObjectId(id)
  THEN [save |-> FALSE] @@ ErrorHandler("CastError")
  ELSE LET found == FindOne(store, id, user._id) IN
       IF found = {}
       THEN [save |-> FALSE, status |-> 404, message |-> NotFoundMsg]
       ELSE LET old == store[CHOOSE t \in found : TRUE]
                new == Assigned(old, [f \in (DOMAIN body) \ {"status"} |-> body[f]])
            IN [save |-> TRUE, doc |-> new,
                modified |-> {f \in DOMAIN old : new[f] # old[f]}]

\* PUT /:id up to the call of task.save(): a response, or the document to save
updateLoad(store, user, id, body) ==
  IF ~IsObjectId(id)
  THEN [save |-> FALSE] @@ ErrorHandler("CastError")
  ELSE LET found == FindOne(store, id, user._id) IN
       IF found = {}
       THEN [save |-> FALSE, status |-> 404, message |-> NotFoundMsg]
       ELSE IF "status" \in DOMAIN body /\ body.status \notin Statuses
       THEN [save |-> FALSE, status |-> 400, message |-> InvalidStatusMsg]
       ELSE LET old == store[CHOOSE t \in found : TRUE]
                new == Assigned(old, body)
            IN [save |-> TRUE, doc |-> new,
                modified |-> {f \in DOMAIN old : new[f] # old[f]}]

updateSaveBlind(store, doc, modified, now) ==
  IF ~TaskValid(doc)
  THEN [store |-> store] @@ ErrorHandler("ValidationError")
  ELSE IF modified = {} \/ doc._id \notin DOMAIN store
  THEN [store |-> store, status |-> 200,
        message |-> "Task updated successfully", task |-> doc]
  ELSE LET saved == [doc EXCEPT !.updatedAt = now] IN
       [store |-> [store EXCEPT ![doc._id] =
                     [f \in DOMAIN @ |->
                        IF f \in modified \cup {"updatedAt"} THEN saved[f] ELSE @[f]]],
        status |-> 200, message |-> "Task updated successfully", task |-> saved]

updateSaveWhole(store, doc, modified, now) ==
  IF ~TaskValid(doc)
  THEN [store |-> store] @@ ErrorHandler("ValidationError")
  ELSE IF doc._id \notin DOMAIN store
  THEN [store |-> store] @@ ErrorHandler("DocumentNotFoundError")
  ELSE LET saved == [doc EXCEPT !.updatedAt = now] IN
       [store |-> Put(store, saved), status |-> 200,
        message |-> "Task updated successfully", task |-> saved]

updateSaveUpsert(store, doc, modified, now) ==
  IF ~TaskValid(doc)
  THEN [store |-> store] @@ ErrorHandler("ValidationError")
  ELSE LET saved == [doc EXCEPT !.updatedAt = now] IN
       [store |-> Put(store, saved), status |-> 200,
        message |-> "Task updated successfully", task |-> saved]

\* task.save() of a loaded document and the response after it
updateSave(store, doc, modified, now) ==
  IF ~TaskValid(doc)
  THEN [store |-> store] @@ ErrorHandler("ValidationError")
  ELSE IF doc._id \notin DOMAIN store
  THEN [store |-> store] @@ ErrorHandler("DocumentNotFoundError")
  ELSE IF modified = {}
  THEN [store |-> store, status |-> 200,
        message |-> "Task updated successfully", task |-> doc]
  ELSE LET saved == [doc EXCEPT !.updatedAt = now] IN
       [store |-> [store EXCEPT ![doc._id] =
                     [f \in DOMAIN @ |->
                        IF f \in modified \cup {"updatedAt"} THEN saved[f] ELSE @[f]]],
        status |-> 200, message |-> "Task updated successfully", task |-> saved]

deleteTaskById(store, user, id) ==
  IF ~IsObjectId(id)
  THEN [store |-> store] @@ ErrorHandler("CastError")
  ELSE IF id \notin DOMAIN store
       THEN [store |-> store, status |-> 404, message |-> NotFoundMsg]
       ELSE [store |-> Remove(store, id),
             status |-> 200, message |-> "Task deleted successfully"]

\* DELETE /:id
deleteTask(store, user, id) ==
  IF ~IsObjectId(id)
  THEN [store |-> store] @@ ErrorHandler("CastError")
  ELSE LET found == FindOne(store, id, user._id) IN
       IF found = {}
       THEN [store |-> store, status |-> 404, message |-> NotFoundMsg]
       ELSE [store |-> Remove(store, CHOOSE t \in found : TRUE),
             status |-> 200, message |-> "Task deleted successfully"]


(***************************************************************************)
(* What clients send.                                                      *)
(***************************************************************************)
Emails == {"a@x.io", "b@x.io", "A@x.io"}
Passwords == {"secret1", "secret2"}

RegisterBodies ==
  {[name |-> "N", email |-> e, password |-> "secret1"] : e \in Emails}
    \cup {[name |-> "N", email |-> "a@x.io"]}

LoginBodies ==
  {[email |-> e, password |-> p] : e \in Emails \ {"A@x.io"}, p \in Passwords}
    \cup {[email |-> "A@x.io", password |-> "secret1"]}
    \cup {[email |-> "a@x.io"]}

\* the tokens a client can present: the issued ones, an issued one with its
\* payload altered and its signature kept, and ones signed with another secret
Tampered(t) ==
  {[t EXCEPT !.payload.userId = (@ % MaxUsers) + 1],
   [t EXCEPT !.payload.exp = @ + ExpiresInDays]}

Presentable ==
  issued \cup UNION {Tampered(t) : t \in issued}
         \cup {JwtSign([userId |-> u, iat |-> clock, exp |-> clock + ExpiresInDays],
                       OtherSecret) : u \in DOMAIN users}

HeaderValues ==
  {<<>>, BearerPrefix, BearerPrefix \o Str(<<"x">>),
   Str(<<"B", "a", "s", "i", "c", " ", "x">>),
   Str(<<"b", "e", "a", "r", "e", "r", " ", "x">>),
   Str(<<"B", "e", "a", "r", "e", "r", "x">>)}
    \cup {BearerPrefix \o <<[jwt |-> t]>> : t \in Presentable}

Headers == {EmptyRec} \cup {[authorization |-> h] : h \in HeaderValues}

IdParams == 0..MaxTasks

\* the records with any of the fields of full present
Partial(full) ==
  {[f \in D |-> full[f]] : D \in SUBSET DOMAIN full}

\* a body may name another account as the owner
CreateBodies ==
  UNION {Partial([title |-> Str(<<"a">>), status |-> "completed", user |-> 1])}
    \cup {[title |-> Str(<<"a">>), status |-> "archived"]}

UpdateBodies ==
  {[status |-> "completed"], [status |-> "pending", user |-> 1],
   [status |-> "archived"], [title |-> Str(<<"a">>)]}

Queries == Partial([search |-> Str(<<"A">>), status |-> "completed"])

\* the wider inputs of a client whose requests are served one at a time:
\* titles with surrounding or only white space, empty values, a description,
\* a status outside the enum next to other fields, a search term that is a
\* regular expression
CreateBodiesAll ==
  CreateBodies
    \cup {[title |-> <<>>], [title |-> Str(<<" ">>)], [title |-> Str(<<" ", "b">>)],
          [title |-> Str(<<"a">>), status |-> ""],
          [title |-> Str(<<"a">>), description |-> <<>>],
          [title |-> Str(<<"b">>), description |-> Str(<<"d">>), status |-> "in-progress"],
          [status |-> "archived"]}

UpdateBodiesAll ==
  UpdateBodies
    \cup {[title |-> Str(<<"b">>), status |-> "archived"],
          [description |-> Str(<<"d">>), status |-> ""],
          [title |-> Str(<<" ">>)], [title |-> <<>>],
          [title |-> Str(<<"b">>), description |-> Str(<<"d">>)]}

QueriesAll ==
  Queries
    \cup {[status |-> "archived"], [status |-> ""], [status |-> "in-progress"],
          [search |-> Str(<<"A">>), status |-> "archived"],
          [search |-> Str(<<".">>)], [search |-> Str(<<"b">>)], [search |-> <<>>]}

(***************************************************************************)
(* The system: the clock, the two stores, and the requests in flight.      *)
(***************************************************************************)
Idle == [pc |-> "idle"]

Response(res) == [f \in (DOMAIN res) \ {"store", "save"} |-> res[f]]

\* the Dashboard before its first render: the initial values of its useState
Unmounted ==
  [mounted |-> FALSE, tasks |-> <<>>, loading |-> TRUE, error |-> "",
   search |-> <<>>, statusFilter |-> "", fetches |-> <<>>]

\* the server after construction, with an empty database
InitEmpty ==
  /\ clock = 0
  /\ users = EmptyRec
  /\ userSeq = 0
  /\ issued = {}
  /\ tasks = EmptyRec
  /\ taskSeq = 0
  /\ req = [r \in Reqs |-> Idle]
  /\ last = [op |-> "none"]
  /\ alone = [u \in UserIds |-> EmptyRec]
  /\ dash = Unmounted

Tick ==
  /\ clock + ClockStep <= MaxClock
  /\ clock' = clock + ClockStep
  /\ UNCHANGED <<users, userSeq, issued, tasks, taskSeq, req, last, alone, dash>>

Register(body) ==
  LET res == register(users, body, userSeq + 1, clock) IN
  /\ userSeq < MaxUsers
  /\ "token" \in DOMAIN res => Cardinality(issued \cup {res.token}) <= MaxTokens
  /\ users' = res.store
  /\ userSeq' = IF res.status = 201 THEN userSeq + 1 ELSE userSeq
  /\ issued' = IF "token" \in DOMAIN res THEN issued \cup {res.token} ELSE issued
  /\ last' = [op |-> "register", body |-> body, res |-> Response(res)]
  /\ UNCHANGED <<clock, tasks, taskSeq, req, alone, dash>>

Login(body) ==
  LET res == login(users, body, clock) IN
  /\ "token" \in DOMAIN res => Cardinality(issued \cup {res.token}) <= MaxTokens
  /\ issued' = IF "token" \in DOMAIN res THEN issued \cup {res.token} ELSE issued
  /\ last' = [op |-> "login", body |-> body, res |-> res]
  /\ UNCHANGED <<clock, users, userSeq, tasks, taskSeq, req, alone, dash>>

\* the administrative path that removes an account
DeleteUser(u) ==
  /\ u \in DOMAIN users
  /\ users' = [v \in (DOMAIN users) \ {u} |-> users[v]]
  /\ UNCHANGED <<clock, userSeq, issued, tasks, taskSeq, req, last, alone, dash>>

Protect(r, headers) ==
  LET res == protect(headers, users, clock) IN
  /\ req[r].pc = "idle"
  /\ req' = [req EXCEPT ![r] =
               IF res.next THEN [pc |-> "authed", user |-> res.user] ELSE Idle]
  /\ last' = [op |-> "protect", r |-> r, headers |-> headers, res |-> res]
  /\ UNCHANGED <<clock, users, userSeq, issued, tasks, taskSeq, alone, dash>>

\* GET /auth/profile
Profile(r) ==
  /\ req[r].pc = "authed"
  /\ req' = [req EXCEPT ![r] = Idle]
  /\ last' = [op |-> "profile", r |-> r, user |-> req[r].user,
              res |-> [status |-> 200, user |-> req[r].user]]
  /\ UNCHANGED <<clock, users, userSeq, issued, tasks, taskSeq, alone, dash>>

\* the exchange a task route adds to the log: what it answered, and what it
\* answers in the run that serves the caller's requests only
Exchange(op, r, input, res, ares) ==
  [op |-> op, r |-> r, user |-> req[r].user, input |-> input,
   res |-> Response(res), ares |-> Response(ares)]

Me(r) == req[r].user._id

List(r, query) ==
  LET res == listTasks(tasks, req[r].user, query)
      ares == listTasks(alone[Me(r)], req[r].user, query)
  IN
  /\ req[r].pc = "authed"
  /\ \E result \in res.tasks :
       last' = Exchange("list", r, query,
                        [res EXCEPT !.tasks = result],
                        [ares EXCEPT !.tasks = IF result \in @ THEN result
                                                ELSE CHOOSE other \in @ : TRUE])
  /\ tasks' = res.store
  /\ req' = [req EXCEPT ![r] = Idle]
  /\ UNCHANGED <<clock, users, userSeq, issued, taskSeq, alone, dash>>

GetOne(r, id) ==
  LET res == getTask(tasks, req[r].user, id) IN
  /\ req[r].pc = "authed"
  /\ last' = Exchange("getOne", r, id, res,
                      getTask(alone[Me(r)], req[r].user, id))
  /\ tasks' = res.store
  /\ req' = [req EXCEPT ![r] = Idle]
  /\ UNCHANGED <<clock, users, userSeq, issued, taskSeq, alone, dash>>

Create(r, body) ==
  LET res == createTask(tasks, req[r].user, body, taskSeq + 1, clock)
      ares == createTask(alone[Me(r)], req[r].user, body, taskSeq + 1, clock)
  IN
  /\ req[r].pc = "authed"
  /\ taskSeq < MaxTasks
  /\ tasks' = res.store
  /\ alone' = [alone EXCEPT ![Me(r)] = ares.store]
  /\ taskSeq' = IF res.status = 201 THEN taskSeq + 1 ELSE taskSeq
  /\ last' = Exchange("create", r, body, res, ares)
  /\ req' = [req EXCEPT ![r] = Idle]
  /\ UNCHANGED <<clock, users, userSeq, issued, dash>>

UpdateLoad(r, id, body) ==
  LET res == updateLoad(tasks, req[r].user, id, body)
      ares == updateLoad(alone[Me(r)], req[r].user, id, body)
  IN
  /\ req[r].pc = "authed"
  /\ IF res.save
     THEN /\ req' = [req EXCEPT ![r] =
                       [pc |-> "saving", user |-> req[r].user, id |-> id,
                        body |-> body, doc |-> res.doc, modified |-> res.modified,
                        aload |-> ares]]
          /\ UNCHANGED last
     ELSE /\ req' = [req EXCEPT ![r] = Idle]
          /\ last' = Exchange("update", r, [id |-> id, body |-> body], res, ares)
  /\ UNCHANGED <<clock, users, userSeq, issued, tasks, taskSeq, alone, dash>>

UpdateSave(r) ==
  LET res == updateSave(tasks, req[r].doc, req[r].modified, clock)
      ares == IF req[r].aload.save
              THEN updateSave(alone[Me(r)], req[r].aload.doc,
                              req[r].aload.modified, clock)
              ELSE [store |-> alone[Me(r)]] @@ req[r].aload
  IN
  /\ req[r].pc = "saving"
  /\ tasks' = res.store
  /\ alone' = [alone EXCEPT ![Me(r)] = ares.store]
  /\ last' = Exchange("update", r, [id |-> req[r].id, body |-> req[r].body], res, ares)
  /\ req' = [req EXCEPT ![r] = Idle]
  /\ UNCHANGED <<clock, users, userSeq, issued, taskSeq, dash>>

Delete(r, id) ==
  LET res == deleteTask(tasks, req[r].user, id)
      ares == deleteTask(alone[Me(r)], req[r].user, id)
  IN
  /\ req[r].pc = "authed"
  /\ tasks' = res.store
  /\ alone' = [alone EXCEPT ![Me(r)] = ares.store]
  /\ last' = Exchange("delete", r, id, res, ares)
  /\ req' = [req EXCEPT ![r] = Idle]
  /\ UNCHANGED <<clock, users, userSeq, issued, taskSeq, dash>>

(***************************************************************************)
(* SpecAuth: accounts, tokens and the middleware, from the empty database. *)
(* One request at a time passes the middleware; no task route is called.   *)
(***************************************************************************)
NextAuth ==
  \/ Tick
  \/ \E body \in RegisterBodies : Register(body)
  \/ \E body \in LoginBodies : Login(body)
  \/ \E u \in UserIds : DeleteUser(u)
  \/ \E headers \in Headers : Protect(1, headers)
  \/ Profile(1)

SpecAuth == InitEmpty /\ [][NextAuth]_vars

(***************************************************************************)
(* Spec: the task routes behind the middleware, serving requests           *)
(* concurrently, for a population of accounts and tokens that SpecAuth     *)
(* reaches on day 30: account 1 (registered on day 0, logged in again on   *)
(* day 30), account 2 (registered on day 15, then removed) and account 3   *)
(* (registered on day 15 with the address account 2 gave up).  So the      *)
(* first token of account 1 has expired, and the token of account 2 is of  *)
(* an account that no longer exists.                                       *)
(***************************************************************************)
Account(id, email) ==
  [_id |-> id, name |-> "N", email |-> email, password |-> HashPassword("secret1")]

Population ==
  /\ clock = ExpiresInDays
  /\ users = (1 :> Account(1, "a@x.io")) @@ (3 :> Account(3, "b@x.io"))
  /\ userSeq = 3
  /\ issued = {generateToken(1, 0), generateToken(1, ExpiresInDays),
               generateToken(2, ClockStep), generateToken(3, ClockStep)}

Init ==
  /\ Population
  /\ tasks = EmptyRec
  /\ taskSeq = 0
  /\ req = [r \in Reqs |-> Idle]
  /\ last = [op |-> "none"]
  /\ alone = [u \in UserIds |-> EmptyRec]
  /\ dash = Unmounted

Next ==
  \/ \E r \in Reqs, headers \in Headers : Protect(r, headers)
  \/ \E r \in Reqs, query \in Queries : List(r, query)
  \/ \E r \in Reqs, id \in IdParams : GetOne(r, id)
  \/ \E r \in Reqs, body \in CreateBodies : Create(r, body)
  \/ \E r \in Reqs, id \in IdParams, body \in UpdateBodies : UpdateLoad(r, id, body)
  \/ \E r \in Reqs : UpdateSave(r)
  \/ \E r \in Reqs, id \in IdParams : Delete(r, id)

Spec == Init /\ [][Next]_vars

(***************************************************************************)
(* SpecSerial: the task routes from the same population, with requests     *)
(* served one at a time while the clock advances, for the wider inputs.    *)
(***************************************************************************)
NextSerial ==
  \/ Tick
  \/ \E headers \in Headers : Protect(1, headers)
  \/ \E query \in QueriesAll : List(1, query)
  \/ \E id \in IdParams : GetOne(1, id)
  \/ \E body \in CreateBodiesAll : Create(1, body)
  \/ \E id \in IdParams, body \in UpdateBodiesAll : UpdateLoad(1, id, body)
  \/ UpdateSave(1)
  \/ \E id \in IdParams : Delete(1, id)

SpecSerial == Init /\ [][NextSerial]_vars

(***************************************************************************)
(* SpecDashboard: the Dashboard page of one browser, signed in as account  *)
(* 1, fetching the list through the API client while the user changes the  *)
(* filters.  A fetch is sent, answered by the server, and its response     *)
(* arrives at the page; fetches in flight are answered and arrive in any   *)
(* order.  Tasks are created through the API meanwhile.                    *)
(***************************************************************************)
\* localStorage.getItem('token'): the token of the last login of account 1
StoredToken == generateToken(1, ExpiresInDays)

\* the request interceptor: Authorization: Bearer <token>
RequestHeaders == [authorization |-> BearerPrefix \o <<[jwt |-> StoredToken]>>]

\* taskAPI.getAll: a parameter is sent only when its value is not empty
getAllParams(search, status) ==
  (IF search # <<>> THEN [search |-> search] ELSE EmptyRec)
    @@ (IF status # "" THEN [status |-> status] ELSE EmptyRec)

\* what the user can type in the search box, and the options of the select
SearchValues == {<<>>, Str(<<"A">>)}
StatusOptions == {"", "pending", "in-progress", "completed"}

\* the first half of fetchTasks, up to the await: the request is sent with
\* the search and statusFilter of the render that called it
StartFetch(d) ==
  [d EXCEPT !.loading = TRUE,
            !.error = "",
            !.fetches = Append(@, [params |-> getAllParams(d.search, d.statusFilter),
                                   phase |-> "sent", data |-> EmptyRec])]

\* the second half of fetchTasks, after the await: setTasks(data.tasks) or
\* setError(message), then setLoading(false)
ArriveAt(d, i) ==
  LET data == d.fetches[i].data
      seen == [d EXCEPT !.fetches[i].phase = "done"]
  IN
  IF data.status = 200
  THEN [seen EXCEPT !.tasks = data.tasks, !.loading = FALSE]
  ELSE [seen EXCEPT !.error = data.message, !.loading = FALSE]

\* the first render: the effect runs fetchTasks
Mount ==
  /\ ~dash.mounted
  /\ dash' = StartFetch([dash EXCEPT !.mounted = TRUE])
  /\ UNCHANGED <<clock, users, userSeq, issued, tasks, taskSeq, req, last, alone>>

\* onSearchChange: a new value re-renders, and the effect runs fetchTasks
SetSearch(v) ==
  /\ dash.mounted
  /\ v # dash.search
  /\ Len(dash.fetches) < MaxFetches
  /\ dash' = StartFetch([dash EXCEPT !.search = v])
  /\ UNCHANGED <<clock, users, userSeq, issued, tasks, taskSeq, req, last, alone>>

\* onStatusFilterChange: the same, for the select
SetStatusFilter(v) ==
  /\ dash.mounted
  /\ v # dash.statusFilter
  /\ Len(dash.fetches) < MaxFetches
  /\ dash' = StartFetch([dash EXCEPT !.statusFilter = v])
  /\ UNCHANGED <<clock, users, userSeq, issued, tasks, taskSeq, req, last, alone>>

\* Clear Filters, shown when a filter is set: both are emptied in one render
ClearFilters ==
  /\ dash.mounted
  /\ dash.search # <<>> \/ dash.statusFilter # ""
  /\ Len(dash.fetches) < MaxFetches
  /\ dash' = StartFetch([dash EXCEPT !.search = <<>>, !.statusFilter = ""])
  /\ UNCHANGED <<clock, users, userSeq, issued, tasks, taskSeq, req, last, alone>>

\* the server answers fetch i: the middleware, then GET /
Serve(i) ==
  LET auth == protect(RequestHeaders, users, clock) IN
  /\ i \in DOMAIN dash.fetches
  /\ dash.fetches[i].phase = "sent"
  /\ IF auth.next
     THEN LET res == listTasks(tasks, auth.user, dash.fetches[i].params) IN
          \E result \in res.tasks :
            dash' = [dash EXCEPT !.fetches[i].phase = "answered",
                                 !.fetches[i].data =
                                    [status |-> res.status, message |-> "",
                                     count |-> res.count, tasks |-> result]]
     ELSE dash' = [dash EXCEPT !.fetches[i].phase = "answered",
                               !.fetches[i].data =
                                  [status |-> auth.status, message |-> auth.message]]
  /\ UNCHANGED <<clock, users, userSeq, issued, tasks, taskSeq, req, last, alone>>

\* the response of fetch i reaches the page
Arrive(i) ==
  /\ i \in DOMAIN dash.fetches
  /\ dash.fetches[i].phase = "answered"
  /\ dash' = ArriveAt(dash, i)
  /\ UNCHANGED <<clock, users, userSeq, issued, tasks, taskSeq, req, last, alone>>

NextDashboard ==
  \/ Protect(1, RequestHeaders)
  \/ \E body \in CreateBodies : Create(1, body)
  \/ Mount
  \/ ClearFilters
  \/ \E v \in SearchValues : SetSearch(v)
  \/ \E v \in StatusOptions : SetStatusFilter(v)
  \/ \E i \in 1..MaxFetches : Serve(i)
  \/ \E i \in 1..MaxFetches : Arrive(i)

SpecDashboard == Init /\ [][NextDashboard]_vars



(***************************************************************************)
(* Properties of the task routes, under Spec.                              *)
(***************************************************************************)
\* the identities the middleware can attach to a request
Identities == {SelectMinusPassword(users[u]) : u \in DOMAIN users}

TaskOps == {"list", "getOne", "create", "update", "delete"}

OwnedBy(store, u) == [t \in {x \in DOMAIN store : store[x].user = u} |-> store[t]]

NotFound == [status |-> 404, message |-> NotFoundMsg]

\* C1: for accounts A # B and every stored task X of A, GET /:id with X's
\* id answers 404 "Task not found" to B and 200 with X itself to A.
C1_GetOneOwnerOnly ==
  /\ \A x \in DOMAIN tasks, u \in Identities :
       LET res == getTask(tasks, u, x) IN
       IF tasks[x].user = u._id
       THEN res.status = 200 /\ res.task = tasks[x]
       ELSE Response(res) = NotFound
  /\ (last.op = "getOne" /\ last.input \in DOMAIN tasks) =>
       IF tasks[last.input].user = last.user._id
       THEN last.res.status = 200 /\ last.res.task = tasks[last.input]
       ELSE last.res = NotFound

\* a GET /:id by an account for a stored task of another account got the 404
C1_Witness ==
  /\ last.op = "getOne"
  /\ last.input \in DOMAIN tasks
  /\ tasks[last.input].user # last.user._id
  /\ last.res = NotFound

\* C2: what an account observes from the task routes, and the stored
\* content of its tasks, are those of the run that serves its requests only,
\* however the requests of the accounts interleave.
C2_NonInterference ==
  /\ \A u \in UserIds : alone[u] = OwnedBy(tasks, u)
  /\ last.op \in TaskOps => last.res = last.ares
  /\ \A r \in Reqs :
       req[r].pc = "saving" =>
         req[r].aload = [save |-> TRUE, doc |-> req[r].doc,
                         modified |-> req[r].modified]

\* an update of one account changed the store between the lookup and the
\* save of an update of another account
C2_Witness ==
  \E r \in Reqs :
    /\ req[r].pc = "saving"
    /\ req[r].modified # {}
    /\ last.op = "update"
    /\ last.res.status = 200
    /\ last.user._id # req[r].user._id
    /\ tasks[last.input.id].updatedAt = clock

\* C3: PUT /:id and DELETE /:id for a well-formed id that is not stored, or
\* is stored for another account, answer the one 404 "Task not found" and
\* leave the tasks collection as it was.
C3_Lookup ==
  \A u \in Identities, id \in 1..(MaxTasks + 1), body \in UpdateBodies :
    (id \notin DOMAIN tasks \/ tasks[id].user # u._id) =>
      /\ updateLoad(tasks, u, id, body) = [save |-> FALSE] @@ NotFound
      /\ deleteTask(tasks, u, id) = [store |-> tasks] @@ NotFound

C3_Step ==
  \A r \in Reqs :
    (/\ req[r].pc = "authed"
     /\ req'[r].pc = "idle"
     /\ last'.r = r
     /\ last'.op \in {"update", "delete"}
     /\ LET id == IF last'.op = "update" THEN last'.input.id ELSE last'.input IN
        /\ IsObjectId(id)
        /\ id \notin DOMAIN tasks \/ tasks[id].user # req[r].user._id)
    => (last'.res = NotFound /\ tasks' = tasks)

C3_NotFoundOrNotOwned == []C3_Lookup /\ [][C3_Step]_vars

\* a DELETE /:id for a task of another account got the 404, the task is kept
C3_Witness ==
  /\ last.op = "delete"
  /\ last.res = NotFound
  /\ last.input \in DOMAIN tasks
  /\ tasks[last.input].user # last.user._id

\* C4: a task POST / stores belongs to req.user, whatever user the body
\* names; every stored task is owned by the account whose request made it.
C4_OwnerFromIdentity ==
  /\ \A u \in Identities, body \in CreateBodies :
       LET res == createTask(tasks, u, body, taskSeq + 1, clock) IN
       res.status = 201 => res.store[taskSeq + 1].user = u._id
  /\ (last.op = "create" /\ last.res.status = 201) =>
       last.res.task.user = last.user._id
  /\ \A t \in DOMAIN tasks : t \in DOMAIN alone[tasks[t].user]

\* a POST / whose body names another account as owner stored a task
C4_Witness ==
  /\ last.op = "create"
  /\ last.res.status = 201
  /\ "user" \in DOMAIN last.input
  /\ last.input.user # last.user._id
  /\ last.res.task._id \in DOMAIN tasks

\* the headers for which the middleware is meant to resolve an identity: a
\* Bearer token that was issued, has not expired, of an account that exists
Resolves(headers, t) ==
  /\ "authorization" \in DOMAIN headers
  /\ headers.authorization = BearerPrefix \o <<[jwt |-> t]>>
  /\ t \in issued
  /\ clock < t.payload.iat + ExpiresInDays
  /\ t.payload.userId \in DOMAIN users

Resolvable(headers) == \E t \in issued : Resolves(headers, t)

\* C5: a task route runs for a request only after protect has resolved its
\* identity; a request whose header is absent or malformed, or whose token
\* is forged, expired or of a removed account, gets 401 and leaves the
\* tasks collection untouched.
C5_Gate ==
  /\ \A headers \in Headers :
       ~Resolvable(headers) =>
         LET res == protect(headers, users, clock) IN
         ~res.next /\ res.status = 401
  /\ \A r \in Reqs : req[r].pc # "idle" => req[r].user \in Identities

C5_Step ==
  /\ \A r \in Reqs :
       (req[r].pc = "idle" /\ req'[r].pc # "idle") =>
         /\ last'.op = "protect" /\ last'.r = r
         /\ req'[r].pc = "authed"
         /\ \E t \in issued :
              /\ Resolves(last'.headers, t)
              /\ req'[r].user._id = t.payload.userId
  /\ (tasks' # tasks \/ (last' # last /\ last'.op \in TaskOps)) =>
       \E r \in Reqs :
         /\ req[r].pc # "idle" /\ req'[r].pc = "idle"
         /\ last'.r = r /\ last'.user = req[r].user
  /\ (last' # last /\ last'.op = "protect" /\ ~Resolvable(last'.headers)) =>
       /\ last'.res.status = 401
       /\ req'[last'.r].pc = "idle"
       /\ tasks' = tasks

C5_ProtectFirst == []C5_Gate /\ [][C5_Step]_vars

\* a request with a token signed with another secret, naming the owner of a
\* stored task, got 401
C5_Witness ==
  /\ last.op = "protect"
  /\ last.res.status = 401
  /\ \E t \in Presentable :
       /\ last.headers = [authorization |-> BearerPrefix \o <<[jwt |-> t]>>]
       /\ t.sig.key = OtherSecret
       /\ \E x \in DOMAIN tasks : tasks[x].user = t.payload.userId


(***************************************************************************)
(* Properties of the middleware, under SpecAuth.                           *)
(***************************************************************************)
Bearer(t) == [authorization |-> BearerPrefix \o <<[jwt |-> t]>>]

\* the header is there, begins with "Bearer " and goes on after it
HasBearerToken(headers) ==
  /\ "authorization" \in DOMAIN headers
  /\ Len(headers.authorization) > Len(BearerPrefix)
  /\ \A i \in 1..Len(BearerPrefix) : headers.authorization[i] = BearerPrefix[i]

\* what follows "Bearer " in the header
TokenOf(headers) ==
  [i \in 1..(Len(headers.authorization) - Len(BearerPrefix)) |->
     headers.authorization[i + Len(BearerPrefix)]]

NoToken ==
  [next |-> FALSE, status |-> 401, message |-> NoTokenMsg,
   verified |-> FALSE, lookedUp |-> FALSE]

\* C6: protect answers the 401 "no token provided" exactly when the
\* Authorization header is absent, does not begin with "Bearer ", or has
\* nothing after it; it then neither verifies a token nor reads the users
\* collection.
C6_MissingToken ==
  /\ \A headers \in Headers :
       LET res == protect(headers, users, clock) IN
       /\ (res.status = 401 /\ res.message = NoTokenMsg) <=> ~HasBearerToken(headers)
       /\ ~HasBearerToken(headers) => res = NoToken
  /\ (last.op = "protect" /\ ~HasBearerToken(last.headers)) => last.res = NoToken

\* while tokens are out, a request with the bare prefix got the 401
C6_Witness ==
  /\ last.op = "protect"
  /\ last.headers = [authorization |-> BearerPrefix]
  /\ last.res = NoToken
  /\ issued # {}

WellFormed(token) == Len(token) = 1 /\ DOMAIN token[1] = {"jwt"}

\* RFC 7519: on or after exp a token must not be accepted
Expired(t) == clock >= t.payload.exp

\* C7: protect answers the 401 "invalid token" whenever the token cannot
\* be parsed, was not signed by the server for this payload, or has
\* expired; an expired token is refused also when its signature is valid
\* and its account exists.
C7_InvalidToken ==
  \A headers \in Headers :
    HasBearerToken(headers) =>
      LET token == TokenOf(headers)
          res == protect(headers, users, clock)
      IN (\/ ~WellFormed(token)
          \/ token[1].jwt \notin issued
          \/ Expired(token[1].jwt))
         => (~res.next /\ res.status = 401 /\ res.message = InvalidTokenMsg)

\* an issued token of an existing account was refused as invalid: it had
\* expired
C7_Witness ==
  /\ last.op = "protect"
  /\ last.res.message = InvalidTokenMsg
  /\ \E t \in issued :
       /\ last.headers = Bearer(t)
       /\ t.payload.userId \in DOMAIN users
       /\ Expired(t)

\* the issued, unexpired tokens of accounts that are no longer there
OfRemovedAccount(t) ==
  t \in issued /\ ~Expired(t) /\ t.payload.userId \notin DOMAIN users

\* C8: a validly signed, unexpired token of an account that no longer
\* exists gets the response, status and message, of a token with a bad
\* signature.
C8_SameAsBadSignature ==
  \A t \in issued, f \in Presentable :
    (OfRemovedAccount(t) /\ f \notin issued) =>
      LET gone == protect(Bearer(t), users, clock)
          forged == protect(Bearer(f), users, clock)
      IN gone.status = forged.status /\ gone.message = forged.message

\* C9: for a token issued for an account that exists, before it expires,
\* protect calls next() with req.user that account: its _id, its fields,
\* and no password.
C9_ResolvesToOwner ==
  /\ \A t \in issued :
       (t.payload.userId \in DOMAIN users /\ ~Expired(t)) =>
         LET res == protect(Bearer(t), users, clock)
             U == users[t.payload.userId]
         IN /\ res.next
            /\ U._id = t.payload.userId
            /\ res.user._id = U._id
            /\ DOMAIN res.user = (DOMAIN U) \ {"password"}
            /\ \A f \in DOMAIN res.user : res.user[f] = U[f]
  /\ (last.op \in {"register", "login"} /\ "token" \in DOMAIN last.res) =>
       last.res.token.payload.userId = last.res.user.id
  /\ (last.op = "protect" /\ last.res.next) =>
       req[last.r] = [pc |-> "authed", user |-> last.res.user]
  /\ \A r \in Reqs : req[r].pc # "idle" => "password" \notin DOMAIN req[r].user

\* with two accounts, a request with the token of one, days after it was
\* issued, went on as that account
C9_Witness ==
  /\ last.op = "protect"
  /\ last.res.next
  /\ Cardinality(DOMAIN users) = 2
  /\ \E t \in issued :
       /\ last.headers = Bearer(t)
       /\ last.res.user._id = t.payload.userId
       /\ t.payload.iat < clock
       /\ ~Expired(t)

\* C10: a token issued at time t expires at t + 30 days: while its account
\* exists protect accepts it at any time before, and refuses it at any
\* time after.
C10_Horizon ==
  \A t \in issued :
    LET res == protect(Bearer(t), users, clock) IN
    /\ t.payload.exp = t.payload.iat + ExpiresInDays
    /\ (t.payload.userId \in DOMAIN users /\ clock < t.payload.iat + ExpiresInDays)
         => res.next
    /\ clock > t.payload.iat + ExpiresInDays => (~res.next /\ res.status = 401)

C10_IssuedNow == \A t \in issued' \ issued : t.payload.iat = clock

C10_ThirtyDays == []C10_Horizon /\ [][C10_IssuedNow]_vars

\* more than 30 days after it was issued, the token of an existing account
\* was refused
C10_Witness ==
  /\ last.op = "protect"
  /\ last.res.status = 401
  /\ \E t \in issued :
       /\ last.headers = Bearer(t)
       /\ t.payload.userId \in DOMAIN users
       /\ clock > t.payload.iat + ExpiresInDays

\* the ids of the tasks that were stored and have been deleted
Deleted == (1..taskSeq) \ DOMAIN tasks

\* C18: once DELETE /:id has removed a task, every further DELETE /:id for
\* that id answers 404 "Task not found" and leaves the tasks collection as it
\* is; the id is never stored again.
C18_Gone ==
  /\ \A u \in Identities, id \in Deleted :
       deleteTask(tasks, u, id) = [store |-> tasks] @@ NotFound
  /\ \A u \in Identities, id \in DOMAIN tasks :
       LET first == deleteTask(tasks, u, id) IN
       first.status = 200 =>
         deleteTask(first.store, u, id) = [store |-> first.store] @@ NotFound

C18_Step ==
  /\ Deleted \subseteq (1..taskSeq') \ DOMAIN tasks'
  /\ \A r \in Reqs :
       (/\ req[r].pc = "authed"
        /\ req'[r].pc = "idle"
        /\ last'.r = r
        /\ last'.op = "delete"
        /\ last'.input \in Deleted)
       => (last'.res = NotFound /\ tasks' = tasks)

C18_DeleteIdempotent == []C18_Gone /\ [][C18_Step]_vars

\* a second DELETE /:id by the owner got the 404 while an update of the same
\* task, loaded before the first delete, is still to be saved
C18_Witness ==
  /\ last.op = "delete"
  /\ last.res = NotFound
  /\ last.input \in Deleted
  /\ \E r \in Reqs :
       /\ req[r].pc = "saving"
       /\ req[r].id = last.input
       /\ req[r].user = last.user

Owns(u, id) == id \in DOMAIN tasks /\ tasks[id].user = u._id

\* an exchange that was refused and stored nothing
Refused(res) == res.status >= 400 /\ "task" \notin DOMAIN res

\* the fields a request body can set
Settable == {"title", "description", "status"}

\* C21: the save of a successful PUT /:id changes, of the stored task, only
\* fields its body carries (and the update time), and changes no other task;
\* no step changes the id, the creation time or the owner of a stored task.
C21_Step ==
  /\ \A r \in Reqs :
       (req[r].pc = "saving" /\ req'[r].pc = "idle" /\ last'.res.status = 200) =>
         /\ req[r].id \in DOMAIN tasks
         /\ DOMAIN tasks' = DOMAIN tasks
         /\ \A f \in DOMAIN tasks[req[r].id] :
              f \notin (Settable \cap DOMAIN req[r].body) \cup {"updatedAt"}
                => tasks'[req[r].id][f] = tasks[req[r].id][f]
         /\ \A t \in DOMAIN tasks : t # req[r].id => tasks'[t] = tasks[t]
  /\ \A t \in DOMAIN tasks \cap DOMAIN tasks' :
       /\ tasks'[t]._id = tasks[t]._id
       /\ tasks'[t].createdAt = tasks[t].createdAt
       /\ tasks'[t].user = tasks[t].user

C21_OnlySupplied == [][C21_Step]_vars

\* an update whose body names another account as owner was saved, and the
\* task is still the caller's
C21_Witness ==
  /\ last.op = "update"
  /\ last.res.status = 200
  /\ "user" \in DOMAIN last.input.body
  /\ last.input.body.user # last.user._id
  /\ Owns(last.user, last.input.id)
  /\ tasks[last.input.id].status = last.input.body.status

\* C25: protect, GET / and GET /:id leave the users, the tokens and the
\* tasks as they are, whether they succeed or fail, and asked again in the
\* state they leave they give the same answer.
C25_Pure ==
  \A u \in Identities :
    /\ \A query \in Queries : listTasks(tasks, u, query).store = tasks
    /\ \A id \in IdParams : getTask(tasks, u, id).store = tasks

C25_Step ==
  /\ \A r \in Reqs :
       (/\ req[r].pc = "authed"
        /\ req'[r].pc = "idle"
        /\ last'.r = r
        /\ last'.op \in {"list", "getOne"})
       => /\ tasks' = tasks /\ users' = users /\ issued' = issued
          /\ last'.op = "getOne" =>
               last'.res = Response(getTask(tasks', last'.user, last'.input))
          /\ last'.op = "list" =>
               last'.res.tasks \in listTasks(tasks', last'.user, last'.input).tasks
  /\ \A r \in Reqs :
       (/\ req[r].pc = "idle"
        /\ last'.op = "protect"
        /\ last'.r = r
        /\ req'[r] # req[r] \/ last' # last)
       => /\ tasks' = tasks /\ users' = users /\ issued' = issued
          /\ last'.res = protect(last'.headers, users', clock')

C25_ReadOnly == []C25_Pure /\ [][C25_Step]_vars

\* a GET /:id failed on a malformed id while tasks are stored
C25_Witness ==
  /\ last.op = "getOne"
  /\ last.res.status = 500
  /\ DOMAIN tasks # {}

\* the value PUT /:id stores for field f of its body
Written(body, f) == IF f = "title" THEN Trim(body.title) ELSE body[f]

\* C26: updates of a task by its owner that interleave all succeed, and
\* when one has saved, every field its body carries is stored with the value
\* it carried: the save that happened last wins.
C26_LastWriterWins ==
  /\ (last.op = "update" /\ last.res.status = 200) =>
       /\ last.input.id \in DOMAIN tasks
       /\ \A f \in Settable \cap DOMAIN last.input.body :
            tasks[last.input.id][f] = Written(last.input.body, f)
  /\ (last.op = "update" /\ last.res.status = 500) =>
       last.input.id \notin DOMAIN tasks

\* store without the task id, every other task as it is
Without(store, id) == [t \in (DOMAIN store) \ {id} |-> store[t]]

\* C27: of the DELETE /:id requests of the owner for one task that are in
\* progress together, the first to reach the store answers 200 and removes
\* that task and no other; each of the others answers 404 and removes nothing.
C27_Pairs ==
  \A r1, r2 \in Reqs, id \in DOMAIN tasks :
    (/\ r1 # r2
     /\ req[r1].pc = "authed" /\ req[r2].pc = "authed"
     /\ Owns(req[r1].user, id) /\ Owns(req[r2].user, id))
    => LET first == deleteTask(tasks, req[r1].user, id)
           second == deleteTask(first.store, req[r2].user, id)
       IN /\ Response(first) = [status |-> 200, message |-> "Task deleted successfully"]
          /\ first.store = Without(tasks, id)
          /\ second = [store |-> first.store] @@ NotFound

C27_Step ==
  /\ Deleted \subseteq (1..taskSeq') \ DOMAIN tasks'
  /\ \A r \in Reqs :
       (/\ req[r].pc = "authed"
        /\ req'[r].pc = "idle"
        /\ last'.r = r
        /\ last'.op = "delete")
       => IF Owns(req[r].user, last'.input)
          THEN last'.res.status = 200 /\ tasks' = Without(tasks, last'.input)
          ELSE last'.res.status # 200 /\ tasks' = tasks

C27_OneDeleteSucceeds == []C27_Pairs /\ [][C27_Step]_vars

\* a DELETE /:id of the owner removed a task, a second one stays stored,
\* and another request of the same owner is still in progress
C27_Witness ==
  /\ last.op = "delete"
  /\ last.res.status = 200
  /\ last.input \in Deleted
  /\ DOMAIN tasks # {}
  /\ \E r \in Reqs : req[r].pc = "authed" /\ req[r].user = last.user

\* C28: when a task is deleted between the lookup and the save of a PUT /:id,
\* the save stores nothing, the task stays absent, and the update is not
\* answered as a success.
C28_Pending ==
  \A r \in Reqs :
    (req[r].pc = "saving" /\ req[r].id \in Deleted) =>
      LET res == updateSave(tasks, req[r].doc, req[r].modified, clock) IN
      res.store = tasks /\ res.status >= 400 /\ "task" \notin DOMAIN res

C28_Step ==
  \A r \in Reqs :
    (req[r].pc = "saving" /\ req'[r].pc = "idle" /\ req[r].id \in Deleted) =>
      /\ tasks' = tasks
      /\ req[r].id \notin DOMAIN tasks'
      /\ last'.op = "update" /\ last'.r = r
      /\ Refused(last'.res)

C28_NoResurrection == []C28_Pending /\ [][C28_Step]_vars

\* the save of an update found its task deleted and answered with an error
C28_Witness ==
  /\ last.op = "update"
  /\ last.res = ErrorHandler("DocumentNotFoundError")
  /\ last.input.id \in Deleted
  /\ \A r \in Reqs : req[r].pc # "saving"

(***************************************************************************)
(* Properties of the task routes, under SpecSerial.                        *)
(***************************************************************************)
BadStatus(body) == "status" \in DOMAIN body /\ body.status \notin Statuses

InvalidStatus == [status |-> 400, message |-> InvalidStatusMsg]

\* C11: PUT /:id of an own task with a status outside the enum answers 400
\* "Invalid status..." and nothing is saved: the stored title, description and
\* status stay as they were, also when the body carries a title or description.
C11_Reject ==
  \A u \in Identities, id \in DOMAIN tasks, body \in UpdateBodiesAll :
    (Owns(u, id) /\ BadStatus(body)) =>
      updateLoad(tasks, u, id, body) = [save |-> FALSE] @@ InvalidStatus

C11_Step ==
  (/\ last' # last
   /\ last'.op = "update"
   /\ BadStatus(last'.input.body)
   /\ Owns(last'.user, last'.input.id))
  => (last'.res = InvalidStatus /\ tasks' = tasks)

C11_RejectedInWhole == []C11_Reject /\ [][C11_Step]_vars

\* an update with a new title and a status outside the enum got the 400, and
\* the stored title is not the one it carried
C11_Witness ==
  /\ last.op = "update"
  /\ last.res = InvalidStatus
  /\ "title" \in DOMAIN last.input.body
  /\ Owns(last.user, last.input.id)
  /\ tasks[last.input.id].title # Trim(last.input.body.title)

GoodTitle(body) == "title" \in DOMAIN body /\ Trim(body.title) # <<>>

\* C12: POST / with a title and a status outside the enum answers 400 and
\* stores no task; the status is never ignored or replaced by the default.
C12_CreateInvalidStatus ==
  (/\ last.op = "create"
   /\ GoodTitle(last.input)
   /\ BadStatus(last.input))
  => (last.res.status = 400 /\ "task" \notin DOMAIN last.res)

\* C13: POST / with a title that is absent, empty, or empty once trimmed
\* answers 400 and stores no task.
C13_CreateWithoutTitle ==
  (last.op = "create" /\ ~GoodTitle(last.input))
  => (last.res.status = 400 /\ "task" \notin DOMAIN last.res)

Supplied == {"title", "description", "status"}

\* what GET /:id answers for the task a POST / has just stored
ReadBack == getTask(tasks, last.user, last.res.task._id)

Expected(body, u) ==
  [title |-> Trim(body.title),
   description |-> IF "description" \in DOMAIN body THEN body.description ELSE <<>>,
   status |-> IF "status" \in DOMAIN body /\ body.status # ""
              THEN body.status ELSE "pending",
   user |-> u._id]

ContainsI(term, s) ==
  \E off \in 0..(Len(s) - Len(term)) :
    \A i \in 1..Len(term) : LowerCh(term[i]) = LowerCh(s[off + i])

\* the tasks of account u that a query selects, as the claim describes it
Selected(u, query) ==
  {t \in DOMAIN tasks :
     /\ tasks[t].user = u._id
     /\ "search" \in DOMAIN query => ContainsI(query.search, tasks[t].title)
     /\ ("status" \in DOMAIN query /\ query.status \in Statuses)
          => tasks[t].status = query.status}

\* C15: GET / answers 200 with exactly the caller's stored tasks whose title
\* contains the search term, letter case aside, and whose status is the
\* status filter when that is one of the enum; with none, an empty list.
C15_ListExactly ==
  last.op = "list" =>
    /\ last.res.status = 200
    /\ {last.res.tasks[i]._id : i \in DOMAIN last.res.tasks} = Selected(last.user, last.input)
    /\ Len(last.res.tasks) = Cardinality(Selected(last.user, last.input))
    /\ \A i \in DOMAIN last.res.tasks : last.res.tasks[i] = tasks[last.res.tasks[i]._id]

\* status values outside the enum
OtherStatuses == {"archived", ""}

\* C16: GET / with a status filter outside the enum answers as GET / with no
\* status filter does, while POST / and PUT /:id refuse the same value.
C16_IgnoredInListOnly ==
  /\ \A u \in Identities, v \in OtherStatuses, q \in QueriesAll :
       "status" \notin DOMAIN q =>
         /\ listTasks(tasks, u, [status |-> v] @@ q) = listTasks(tasks, u, q)
         /\ listTasks(tasks, u, q).status = 200
  /\ (last.op = "update" /\ BadStatus(last.input.body)
        /\ Owns(last.user, last.input.id)) => Refused(last.res)
  /\ (last.op = "create" /\ GoodTitle(last.input) /\ BadStatus(last.input))
       => Refused(last.res)

\* the orders of ids in which GET / with no filter may answer account u
Orders(store, u) ==
  {[i \in DOMAIN result |-> result[i]._id] : result \in listTasks(store, u, EmptyRec).tasks}

NewestFirst(result) ==
  \A i, j \in DOMAIN result :
    result[i].createdAt > result[j].createdAt => i < j

\* C17: of two tasks GET / returns, the one created later comes first; an
\* update of a task moves no task in the list.
C17_Order ==
  /\ \A u \in Identities, query \in QueriesAll :
       \A result \in listTasks(tasks, u, query).tasks : NewestFirst(result)
  /\ last.op = "list" => NewestFirst(last.res.tasks)

C17_Step ==
  (last' # last /\ last'.op = "update") =>
    /\ DOMAIN tasks' = DOMAIN tasks
    /\ \A t \in DOMAIN tasks : tasks'[t].createdAt = tasks[t].createdAt
    /\ \A u \in Identities : Orders(tasks', u) = Orders(tasks, u)

C17_NewestFirst == []C17_Order /\ [][C17_Step]_vars

\* GET / returned two tasks, the one created later first, although the one
\* created earlier has been updated since
C17_Witness ==
  /\ last.op = "list"
  /\ Len(last.res.tasks) > 1
  /\ last.res.tasks[1].createdAt > last.res.tasks[Len(last.res.tasks)].createdAt
  /\ last.res.tasks[Len(last.res.tasks)].updatedAt
       > last.res.tasks[Len(last.res.tasks)].createdAt

\* C22: every stored task has a status of the enum, whatever create and
\* update requests were made.
C22_StatusInEnum == \A t \in DOMAIN tasks : tasks[t].status \in Statuses

\* a create with status "archived" was refused while tasks are stored
C22_Witness ==
  /\ DOMAIN tasks # {}
  /\ last.op = "create"
  /\ GoodTitle(last.input)
  /\ BadStatus(last.input)
  /\ last.input.status # ""
  /\ Refused(last.res)

\* C23: every stored task has a title that is not empty and has no white
\* space around it; an update with an empty or white-space title stores none.
C23_TitleNonEmpty ==
  /\ \A t \in DOMAIN tasks :
       /\ tasks[t].title # <<>>
       /\ Head(tasks[t].title) # Space
       /\ tasks[t].title[Len(tasks[t].title)] # Space
  /\ (last.op = "update" /\ "title" \in DOMAIN last.input.body
        /\ ~GoodTitle(last.input.body) /\ Owns(last.user, last.input.id))
       => Refused(last.res)

\* an update of an own task with an empty or white-space title was refused
C23_Witness ==
  /\ last.op = "update"
  /\ "title" \in DOMAIN last.input.body
  /\ ~GoodTitle(last.input.body)
  /\ Owns(last.user, last.input.id)
  /\ Refused(last.res)
  /\ tasks[last.input.id].title # <<>>

\* what PUT /:id with body stores for the own task id, load and save together
Updated(u, id, body) ==
  LET loaded == updateLoad(tasks, u, id, body) IN
  IF loaded.save
  THEN updateSave(tasks, loaded.doc, loaded.modified, clock)
  ELSE [store |-> tasks] @@ loaded

\* C24: from every status a stored task has, one update by its owner takes
\* it to each status of the enum; a task created with no status is pending.
C24_AnyToAny ==
  /\ \A u \in Identities, id \in DOMAIN tasks, to \in Statuses :
       Owns(u, id) =>
         LET res == Updated(u, id, [status |-> to]) IN
         res.status = 200 /\ res.store[id].status = to
  /\ \A u \in Identities, body \in CreateBodiesAll :
       (GoodTitle(body) /\ "status" \notin DOMAIN body) =>
         createTask(tasks, u, body, taskSeq + 1, clock).task.status = "pending"
  /\ (last.op = "update" /\ last.res.status = 200
        /\ "status" \in DOMAIN last.input.body)
       => tasks[last.input.id].status = last.input.body.status

\* a task that had been given another status was updated back to pending
C24_Witness ==
  /\ last.op = "update"
  /\ last.res.status = 200
  /\ DOMAIN last.input.body = {"status", "user"}
  /\ last.input.body.status = "pending"
  /\ tasks[last.input.id].status = "pending"
  /\ tasks[last.input.id].updatedAt > tasks[last.input.id].createdAt
  /\ tasks[last.input.id].updatedAt = clock

(***************************************************************************)
(* Properties of registration and login, under SpecAuth.                   *)
(***************************************************************************)
Complete(body, fields) == fields \subseteq DOMAIN body

Registered(email) == \E u \in DOMAIN users : users[u].email = ToLowerCase(email)

DuplicateEmail == [status |-> 400, message |-> DuplicateEmailMsg]

\* C19: no two users have the same lowercased email; a registration for an
\* email whose lowercased form is registered answers 400 "User already
\* exists with this email" and adds no user, whatever its letter case and
\* however the registrations interleave.
C19_OnePerEmail ==
  /\ \A u, v \in DOMAIN users :
       ToLowerCase(users[u].email) = ToLowerCase(users[v].email) => u = v
  /\ \A body \in RegisterBodies :
       (Complete(body, {"name", "email", "password"}) /\ Registered(body.email)) =>
         register(users, body, userSeq + 1, clock) = [store |-> users] @@ DuplicateEmail

C19_Step ==
  (/\ last' # last
   /\ last'.op = "register"
   /\ userSeq' = userSeq
   /\ issued' = issued
   /\ Complete(last'.body, {"name", "email", "password"}))
  => (last'.res = DuplicateEmail /\ Registered(last'.body.email) /\ users' = users)

InvalidCredentials == [status |-> 401, message |-> InvalidCredentialsMsg]

\* the password of the body is not the one user u registered with
WrongPassword(u, body) == users[u].password # HashPassword(body.password)

\* C20: a login for an email no user has and a login with a wrong password
\* get the same 401 "Invalid email or password", with no token; for every
\* registered user a wrong password fails.
C20_Undifferentiated ==
  /\ \A body \in LoginBodies :
       Complete(body, {"email", "password"}) =>
         LET res == login(users, body, clock) IN
         /\ ~Registered(body.email) => res = InvalidCredentials
         /\ \A u \in DOMAIN users :
              (users[u].email = ToLowerCase(body.email) /\ WrongPassword(u, body))
                => res = InvalidCredentials
  /\ (last.op = "login" /\ last.res.status = 401) => last.res = InvalidCredentials

C20_Step ==
  (last'.op = "login" /\ issued' # issued) =>
    \E u \in DOMAIN users :
      /\ users[u].email = ToLowerCase(last'.body.email)
      /\ ~WrongPassword(u, last'.body)
      /\ last'.res.status = 200
      /\ last'.res.token.payload.userId = u

C20_InvalidCredentials == []C20_Undifferentiated /\ [][C20_Step]_vars

\* a login of a registered user with a wrong password got the 401
C20_Witness ==
  /\ last.op = "login"
  /\ last.res = InvalidCredentials
  /\ \E u \in DOMAIN users :
       users[u].email = ToLowerCase(last.body.email) /\ WrongPassword(u, last.body)

(***************************************************************************)
(* Properties of the Dashboard page, under SpecDashboard.                  *)
(***************************************************************************)
\* no call of fetchTasks is in flight
Settled ==
  /\ dash.mounted
  /\ \A i \in DOMAIN dash.fetches : dash.fetches[i].phase = "done"

\* C29: once no fetchTasks call is in flight, the displayed tasks are the
\* server's response to the fetch started last, which is the one sent with
\* the current search and statusFilter, whatever order the responses of
\* the earlier fetches arrived in.
C29_ShowsCurrent ==
  Settled =>
    LET f == dash.fetches[Len(dash.fetches)] IN
    /\ f.params = getAllParams(dash.search, dash.statusFilter)
    /\ f.data.status = 200 => dash.tasks = f.data.tasks


====
